---- MODULE Spec2Model ----
(***************************************************************************)
(* SneakPeak API (src/main.py): the in-memory sneaker catalog with its     *)
(* filter / sort / limit listing, the trending endpoint, the live price    *)
(* simulator and the design / alert persistence endpoints.                  *)
(*                                                                         *)
(* Python values are modelled as follows.                                   *)
(*   str            a sequence of code points ("Nk" is <<78, 107>>)         *)
(*   Optional[T]    None is <<>>, a present value x is <<x>>                *)
(*   dict           a function; an absent key is a key outside its DOMAIN   *)
(*   float          a fixed-point integer (the unit is stated at each use)  *)
(* Values that are only compared for equality (sort keys, operation names, *)
(* the suggested terms) are TLA+ strings.                                   *)
(***************************************************************************)
EXTENDS Integers, Sequences, FiniteSets, TLC

\* SNEAKERS        the catalog list loaded from data/sneakers.json
\* SNEAKERS_BY_ID  the id -> record index built from it
\* store           the document store's collections (design, alert)
\* next_oid        the next identifier the store assigns
\* issued          the designs create_design has answered with an id
\* req, resp       the request in hand and the response to it
\* store_calls     the store's answers to the calls of the request in hand
VARIABLES SNEAKERS, SNEAKERS_BY_ID, store, next_oid, issued, req, resp, store_calls

vars == <<SNEAKERS, SNEAKERS_BY_ID, store, next_oid, issued, req, resp, store_calls>>

\* ------------------------------------------------------------------ bounds

\* Longest catalog of the listing specification.
MaxCatalog == 3

\* Longest catalog of the trending specification.
MaxTrending == 9

\* Most documents the store holds (designs and alerts together).
MaxDocs == 2

\* ------------------------------------------------------- Python primitives

None == <<>>

Some(x) == <<x>>

\* Truthiness of an Optional[str]: None and "" are both falsy.
Truthy(o) == o # None /\ o[1] # <<>>

EmptyDict == [k \in {} |-> 0]

\* dict.get(k, default)
Get(d, k, default) == IF k \in DOMAIN d THEN d[k] ELSE default

Min(a, b) == IF a <= b THEN a ELSE b

Max(a, b) == IF a >= b THEN a ELSE b

\* str.lower() on one code point: 'A'..'Z' (65..90) map to 'a'..'z'.
LowerChar(c) == IF c >= 65 /\ c <= 90 THEN c + 32 ELSE c

\* str.lower()
lower(s) == [i \in 1..Len(s) |-> LowerChar(s[i])]

\* sub in s
Contains(sub, s) ==
    \E i \in 0..(Len(s) - Len(sub)) : SubSeq(s, i + 1, i + Len(sub)) = sub

\* a < b on str: lexicographic order by code point, a proper prefix first.
StrLt(a, b) ==
    LET n == Min(Len(a), Len(b))
        diff == {i \in 1..n : a[i] # b[i]}
    IN  IF diff = {}
        THEN Len(a) < Len(b)
        ELSE LET k == CHOOSE i \in diff : \A j \in diff : i <= j
             IN  a[k] < b[k]

StrLe(a, b) == a = b \/ StrLt(a, b)

\* seq[:limit]: a negative limit counts from the end of the list.
Slice(seq, limit) ==
    IF limit >= 0
    THEN SubSeq(seq, 1, Min(limit, Len(seq)))
    ELSE SubSeq(seq, 1, Max(0, Len(seq) + limit))

\* ------------------------------------------------------------ the catalog

\* s.get('stockx', {}).get('lowestAsk', s.get('retailPrice', 0))
EffectivePrice(s) ==
    Get(Get(s, "stockx", EmptyDict), "lowestAsk", Get(s, "retailPrice", 0))

\* s.get('trendingScore', 0)
TrendingKey(s) == Get(s, "trendingScore", 0)

\* s.get('releaseDate', '')
ReleaseKey(s) == Get(s, "releaseDate", <<>>)

\* s.get('releaseDate') used as a condition: present and not ''.
HasRelease(s) == "releaseDate" \in DOMAIN s /\ s.releaseDate # <<>>

\* SNEAKERS_BY_ID = {s['id']: s for s in SNEAKERS}: the last record wins.
BuildIndex(cat) ==
    [id \in {cat[i].id : i \in 1..Len(cat)} |->
        cat[CHOOSE i \in 1..Len(cat) :
                /\ cat[i].id = id
                /\ \A j \in 1..Len(cat) : cat[j].id = id => j <= i]]

\* ---------------------------------------------------------- list.sort(key)

KeyLt(a, b, kind) == IF kind = "str" THEN StrLt(a, b) ELSE a < b

\* list.sort(key=..., reverse=...) on <<key, item>> pairs: a stable sort.
\* Each element goes after every element already placed that does not have
\* to follow it, so equal keys keep their order, with reverse=True as well.
\* The same sort, except that with reverse set a record goes before the
\* records already placed with an equal key.
RECURSIVE list_sort_unstable(_, _, _)
list_sort_unstable(pairs, kind, reverse) ==
    IF pairs = <<>> THEN <<>> ELSE
    LET init == list_sort_unstable(SubSeq(pairs, 1, Len(pairs) - 1), kind, reverse)
        x == pairs[Len(pairs)]
        n == Cardinality({i \in 1..Len(init) :
                 IF reverse THEN KeyLt(x[1], init[i][1], kind)
                            ELSE ~KeyLt(x[1], init[i][1], kind)})
    IN  SubSeq(init, 1, n) \o <<x>> \o SubSeq(init, n + 1, Len(init))

RECURSIVE list_sort(_, _, _)
list_sort(pairs, kind, reverse) ==
    IF pairs = <<>> THEN <<>> ELSE
    LET init == list_sort(SubSeq(pairs, 1, Len(pairs) - 1), kind, reverse)
        x == pairs[Len(pairs)]
        n == Cardinality({i \in 1..Len(init) :
                 IF reverse THEN ~KeyLt(init[i][1], x[1], kind)
                            ELSE ~KeyLt(x[1], init[i][1], kind)})
    IN  SubSeq(init, 1, n) \o <<x>> \o SubSeq(init, n + 1, Len(init))

Unpair(pairs) == [i \in 1..Len(pairs) |-> pairs[i][2]]

SortByTrending(items, reverse) ==
    Unpair(list_sort([i \in 1..Len(items) |-> <<TrendingKey(items[i]), items[i]>>],
                "num", reverse))

SortByPrice(items, reverse) ==
    Unpair(list_sort([i \in 1..Len(items) |-> <<EffectivePrice(items[i]), items[i]>>],
                "num", reverse))

SortByRelease(items, reverse) ==
    Unpair(list_sort([i \in 1..Len(items) |-> <<ReleaseKey(items[i]), items[i]>>],
                "str", reverse))

\* ------------------------------------------------- GET /api/sneakers

\* items = SNEAKERS.copy(): the name `items` is bound to a new list object
\* holding the same records.  The operators below name list objects by
\* "SNEAKERS" (the module-level list) and "items" (the handler's own list).
\* items = SNEAKERS, without the copy: both names, one list object.
copy_alias(name) == name

copy(name) == "items"

FilterQ(items, q) ==
    IF Truthy(q)
    THEN LET ql == lower(q[1])
         IN  SelectSeq(items, LAMBDA s : \/ Contains(ql, lower(s.name))
                                         \/ Contains(ql, lower(s.model))
                                         \/ Contains(ql, lower(s.brand)))
    ELSE items

FilterBrand(items, brand) ==
    IF Truthy(brand)
    THEN SelectSeq(items, LAMBDA s : lower(s.brand) = lower(brand[1]))
    ELSE items

FilterModel(items, model) ==
    IF Truthy(model)
    THEN SelectSeq(items, LAMBDA s : Contains(lower(model[1]), lower(s.model)))
    ELSE items

\* The lower bound taken as exclusive.
FilterMinPrice_strict(items, minPrice) ==
    IF minPrice # None
    THEN SelectSeq(items, LAMBDA s : EffectivePrice(s) > minPrice[1])
    ELSE items

FilterMinPrice(items, minPrice) ==
    IF minPrice # None
    THEN SelectSeq(items, LAMBDA s : EffectivePrice(s) >= minPrice[1])
    ELSE items

FilterMaxPrice(items, maxPrice) ==
    IF maxPrice # None
    THEN SelectSeq(items, LAMBDA s : EffectivePrice(s) <= maxPrice[1])
    ELSE items

FilterReleaseFrom(items, releaseFrom) ==
    IF Truthy(releaseFrom)
    THEN SelectSeq(items, LAMBDA s : HasRelease(s) /\ StrLe(releaseFrom[1], s.releaseDate))
    ELSE items

FilterReleaseTo(items, releaseTo) ==
    IF Truthy(releaseTo)
    THEN SelectSeq(items, LAMBDA s : HasRelease(s) /\ StrLe(s.releaseDate, releaseTo[1]))
    ELSE items

\* The if / elif chain on `sort`; any other value sorts nothing.
SortItems(items, sort) ==
    CASE sort = Some("trending")     -> SortByTrending(items, TRUE)
      [] sort = Some("price_asc")    -> SortByPrice(items, FALSE)
      [] sort = Some("price_desc")   -> SortByPrice(items, TRUE)
      [] sort = Some("release_desc") -> SortByRelease(items, TRUE)
      [] sort = Some("release_asc")  -> SortByRelease(items, FALSE)
      [] OTHER                       -> items

list_sneakers(q, brand, model, minPrice, maxPrice, releaseFrom, releaseTo, sort, limit) ==
    LET lists0 == [SNEAKERS |-> SNEAKERS, items |-> SNEAKERS]
        ref0 == copy("SNEAKERS")
        \* every filter that runs binds `items` to the list its comprehension builds
        rebound == \/ Truthy(q) \/ Truthy(brand) \/ Truthy(model)
                   \/ minPrice # None \/ maxPrice # None
                   \/ Truthy(releaseFrom) \/ Truthy(releaseTo)
        ref == IF rebound THEN "items" ELSE ref0
        filtered ==
            FilterReleaseTo(FilterReleaseFrom(FilterMaxPrice(FilterMinPrice(
                FilterModel(FilterBrand(FilterQ(lists0[ref0], q), brand), model),
                minPrice), maxPrice), releaseFrom), releaseTo)
        \* items.sort(...) sorts the list object `items` names, in place
        lists1 == [lists0 EXCEPT ![ref] = SortItems(filtered, sort)]
    IN  /\ SNEAKERS' = lists1.SNEAKERS
        /\ req' = [op |-> "list_sneakers", q |-> q, brand |-> brand, model |-> model,
                   minPrice |-> minPrice, maxPrice |-> maxPrice,
                   releaseFrom |-> releaseFrom, releaseTo |-> releaseTo,
                   sort |-> sort, limit |-> limit]
        /\ resp' = [status |-> 200,
                    body |-> [count |-> Len(lists1[ref]),
                              items |-> Slice(lists1[ref], limit)]]
        /\ store_calls' = <<>>
        /\ UNCHANGED <<SNEAKERS_BY_ID, store, next_oid, issued>>

\* ------------------------------------------------------------ input sets

\* Catalogs of at most n records of a pool, no id twice.
Catalogs(pool, n) ==
    UNION {{c \in [1..k -> pool] : \A i, j \in 1..k : c[i].id = c[j].id => i = j}
           : k \in 0..n}

\* Records of src/data/sneakers.json shapes: "Pa"/"Nk"/"Dk" ..., with the
\* optional keys present in some and absent in others, and equal keys.
ListPool ==
    { [id |-> <<97>>, name |-> <<80, 97>>, brand |-> <<78, 107>>, model |-> <<68, 107>>,
       retailPrice |-> 10, releaseDate |-> <<50, 49>>, trendingScore |-> 2,
       stockx |-> [lowestAsk |-> 12]],
      [id |-> <<98>>, name |-> <<97, 106>>, brand |-> <<78, 75>>, model |-> <<65, 74>>,
       retailPrice |-> 12, stockx |-> [highestBid |-> 11]],
      [id |-> <<99>>, name |-> <<89, 122>>, brand |-> <<65, 100>>, model |-> <<100, 107>>,
       releaseDate |-> <<>>, trendingScore |-> 0],
      [id |-> <<100>>, name |-> <<68, 107>>, brand |-> <<110, 107>>, model |-> <<80, 97>>,
       retailPrice |-> 9, releaseDate |-> <<50, 50>>, trendingScore |-> 2,
       stockx |-> [lowestAsk |-> 15]] }

ListQ == {None, Some(<<>>), Some(<<100, 75>>)}

ListBrand == {None, Some(<<110, 75>>)}

ListModel == {None, Some(<<68, 75>>)}

ListMinPrice == {None, Some(0), Some(12)}

ListMaxPrice == {None, Some(12)}

ListReleaseFrom == {None, Some(<<50, 49>>)}

ListReleaseTo == {None, Some(<<50, 49>>)}

SortKeys == {None, Some("trending"), Some("price_asc"), Some("price_desc"),
             Some("release_desc"), Some("release_asc"), Some("newest")}

\* limit: int = 50
DefaultLimit == 50

ListLimit == {-1, 0, 2, DefaultLimit}

EmptyStore == [design |-> <<>>, alert |-> <<>>]

NoRequest == [op |-> "none"]

NoResponse == [status |-> 0]

Loaded(catalog) ==
    /\ SNEAKERS = catalog
    /\ SNEAKERS_BY_ID = BuildIndex(SNEAKERS)
    /\ store = EmptyStore
    /\ next_oid = 1
    /\ issued = {}
    /\ req = NoRequest
    /\ resp = NoResponse
    /\ store_calls = <<>>

\* The worker waits for a request.
Idle == req = NoRequest

\* The response has been sent: the worker waits for the next request.
Reply ==
    /\ ~Idle
    /\ req' = NoRequest
    /\ resp' = NoResponse
    /\ UNCHANGED <<SNEAKERS, SNEAKERS_BY_ID, store, next_oid, issued, store_calls>>

\* ------------------------------------------- the listing specification

InitList == \E catalog \in Catalogs(ListPool, MaxCatalog) : Loaded(catalog)

ListRequest ==
    /\ Idle
    /\ \E q \in ListQ, brand \in ListBrand, model \in ListModel,
          minPrice \in ListMinPrice, maxPrice \in ListMaxPrice,
          releaseFrom \in ListReleaseFrom, releaseTo \in ListReleaseTo,
          sort \in SortKeys, limit \in ListLimit :
           list_sneakers(q, brand, model, minPrice, maxPrice, releaseFrom, releaseTo,
                         sort, limit)

NextList == ListRequest \/ Reply

SpecList == InitList /\ [][NextList]_vars

\* ------------------------------------------------- GET /api/trending

\* [:8]
TopN == 8

TrendingTerms ==
    <<"Jordan 1", "Air Force 1", "Yeezy 350", "Dunk Low", "New Balance 550", "AJ4",
      "Panda Dunks", "Travis Scott">>

\* SNEAKERS[:8], without the sort.
trending_items_unsorted(cat) == Slice(cat, TopN)

\* sorted(SNEAKERS, key=lambda s: s.get('trendingScore', 0), reverse=True)[:8]
trending_items(cat) == Slice(SortByTrending(cat, TRUE), TopN)

trending ==
    /\ req' = [op |-> "trending"]
    /\ resp' = [status |-> 200,
                body |-> [items |-> trending_items(SNEAKERS), terms |-> TrendingTerms]]
    /\ store_calls' = <<>>
    /\ UNCHANGED <<SNEAKERS, SNEAKERS_BY_ID, store, next_oid, issued>>

\* The k-th record of a trending catalog; score -1 stands for a record
\* without the trendingScore key.
TrendingRecord(k, score) ==
    IF score = -1
    THEN [id |-> <<96 + k>>, name |-> <<80, 97>>, brand |-> <<78, 107>>,
          model |-> <<68, 107>>]
    ELSE [id |-> <<96 + k>>, name |-> <<80, 97>>, brand |-> <<78, 107>>,
          model |-> <<68, 107>>, trendingScore |-> score]

InitTrending ==
    \E n \in 0..MaxTrending : \E f \in [1..n -> {-1, 0, 1}] :
        Loaded([k \in 1..n |-> TrendingRecord(k, f[k])])

TrendingRequest == Idle /\ trending

NextTrending == TrendingRequest \/ Reply

SpecTrending == InitTrending /\ [][NextTrending]_vars

\* ------------------------------------- GET /, GET /api/sneakers/{id}

read_root ==
    /\ req' = [op |-> "read_root"]
    /\ resp' = [status |-> 200, body |-> [message |-> "SneakPeak Backend Running"]]
    /\ store_calls' = <<>>
    /\ UNCHANGED <<SNEAKERS, SNEAKERS_BY_ID, store, next_oid, issued>>

\* HTTPException(status_code=404, detail="Sneaker not found")
NotFound == [status |-> 404, body |-> [detail |-> "Sneaker not found"]]

get_sneaker(sneaker_id) ==
    /\ req' = [op |-> "get_sneaker", sneaker_id |-> sneaker_id]
    /\ resp' = IF sneaker_id \in DOMAIN SNEAKERS_BY_ID
               THEN [status |-> 200, body |-> SNEAKERS_BY_ID[sneaker_id]]
               ELSE NotFound
    /\ store_calls' = <<>>
    /\ UNCHANGED <<SNEAKERS, SNEAKERS_BY_ID, store, next_oid, issued>>

\* ------------------------------------------ GET /api/stockx/{id}/live

\* round(x) of Python 3 for x = num / den >= 0: to the nearest integer, a
\* tie to the even one.
Round(num, den) ==
    LET q == num \div den
        r == num % den
    IN  IF 2 * r < den THEN q
        ELSE IF 2 * r > den THEN q + 1
        ELSE IF q % 2 = 0 THEN q ELSE q + 1

\* Values random.uniform(-pct, pct) can return, in units of 1/10000: both
\* ends, the middle and a value nine tenths of the way up the interval.
Uniform(pct) == {-pct, 0, (9 * pct) \div 10, pct}

\* random.randint(-5, 5)
RandInt == -5..5

\* The offset applied twice over.
jitter_twice(val, u) == Round(val * (10000 + 2 * u), 10000)

\* jitter(val, pct): round(val * (1 + random.uniform(-pct, pct))), with u the
\* value drawn, in units of 1/10000.  Catalog prices are numbers.
jitter(val, u) == Round(val * (10000 + u), 10000)

\* round(max(0.01, base.get('volatility', 0.05) + random.uniform(-0.01, 0.01)), 3)
\* in units of 1/10000: 0.01 is 100, 0.05 is 500, 3 decimals are tens.
live_volatility(base, v) ==
    10 * Round(Max(100, Get(base, "volatility", 500) + v), 10)

\* max(0, base.get('salesLast72h', 0) + random.randint(-5, 5))
live_sales(base, r) == Max(0, Get(base, "salesLast72h", 0) + r)

\* datetime.utcnow().isoformat() + 'Z'
as_of(now) == now \o <<90>>

live_stockx(sneaker_id, u1, u2, u3, v, r, now) ==
    /\ req' = [op |-> "live_stockx", sneaker_id |-> sneaker_id]
    /\ resp' =
        IF sneaker_id \in DOMAIN SNEAKERS_BY_ID
        THEN LET s == SNEAKERS_BY_ID[sneaker_id]
                 base == Get(s, "stockx", EmptyDict)
                 retail == Get(s, "retailPrice", 0)
             IN  [status |-> 200,
                  body |-> [lastSale |-> jitter(Get(base, "lastSale", retail), u1),
                            lowestAsk |-> jitter(Get(base, "lowestAsk", retail), u2),
                            highestBid |-> jitter(Get(base, "highestBid", retail), u3),
                            volatility |-> live_volatility(base, v),
                            salesLast72h |-> live_sales(base, r),
                            asOf |-> as_of(now)]]
        ELSE NotFound
    /\ store_calls' = <<>>
    /\ UNCHANGED <<SNEAKERS, SNEAKERS_BY_ID, store, next_oid, issued>>

\* A dict with the key k, or without it when v is -1.
Opt(k, v) == IF v = -1 THEN EmptyDict ELSE (k :> v)

\* Catalog records for the simulator: every stockx key and retailPrice
\* present or absent (-1), stockx itself present or absent.
LiveRecord(hasStockx, ask, sale, retail, vol, sales) ==
    [id |-> <<97>>, name |-> <<80, 97>>, brand |-> <<78, 107>>, model |-> <<68, 107>>]
    @@ Opt("retailPrice", retail)
    @@ (IF hasStockx
        THEN "stockx" :> (Opt("lowestAsk", ask) @@ Opt("lastSale", sale)
                          @@ Opt("volatility", vol) @@ Opt("salesLast72h", sales))
        ELSE EmptyDict)

InitLive ==
    \E hasStockx \in BOOLEAN, ask \in {-1, 0, 33, 110}, sale \in {-1, 31},
       retail \in {-1, 30}, vol \in {-1, 0, 125}, sales \in {-1, 3, 40} :
        Loaded(<<LiveRecord(hasStockx, ask, sale, retail, vol, sales)>>)

\* "2026" and "2027" stand for two readings of the clock.
Clock == {<<50, 48, 50, 54>>, <<50, 48, 50, 55>>}

LiveRequest ==
    /\ Idle
    /\ \E sneaker_id \in {<<97>>, <<122>>},
          u1 \in Uniform(500), u2 \in Uniform(500), u3 \in Uniform(500),
          v \in Uniform(100), r \in RandInt, now \in Clock :
           live_stockx(sneaker_id, u1, u2, u3, v, r, now)

NextLive == LiveRequest \/ Reply

SpecLive == InitLive /\ [][NextLive]_vars

\* ------------------------------------------------ the document store
\* The database module (create_document, get_documents, db) is not among the
\* sources; it is modelled from the specification: the store assigns each
\* created document an identifier, keeps documents unchanged, returns the
\* documents whose fields equal the filter's, and any call may fail with a
\* message.  An outcome is what the store answers to one call.

Succeeds == [ok |-> TRUE]

Fails(msg) == [ok |-> FALSE, exc |-> [args |-> <<msg>>]]

\* Decimal digits of n, as a str.
RECURSIVE Digits(_)
Digits(n) == IF n < 10 THEN <<48 + n>> ELSE Digits(n \div 10) \o <<48 + (n % 10)>>

\* str(ObjectId)
str_oid(oid) == <<111>> \o Digits(oid.oid)

\* str(e) of an exception raised with one message
str_exc(e) == e.args[1]

\* create_document(collection_name, data) -> the new identifier as a str
create_document(coll, data, out) ==
    IF out.ok
    THEN [ok |-> TRUE,
          id |-> str_oid([oid |-> next_oid]),
          store |-> [store EXCEPT ![coll] = Append(@, ("_id" :> [oid |-> next_oid]) @@ data)],
          next_oid |-> next_oid + 1]
    ELSE [ok |-> FALSE, exc |-> out.exc, store |-> store, next_oid |-> next_oid]

\* get_documents(collection_name, filter_dict) -> the matching documents
get_documents(coll, filter, out) ==
    IF out.ok
    THEN [ok |-> TRUE,
          docs |-> SelectSeq(store[coll],
                       LAMBDA d : \A k \in DOMAIN filter : k \in DOMAIN d /\ d[k] = filter[k])]
    ELSE [ok |-> FALSE, exc |-> out.exc]

\* db.list_collection_names()
list_collection_names == SelectSeq(<<"alert", "design">>, LAMBDA c : store[c] # <<>>)

\* -------------------------------------------------------- GET /test

\* str(e)[:80]
TruncateAt == 80

Truncate(msg) == SubSeq(msg, 1, Min(TruncateAt, Len(msg)))

\* db: "import_error" (from database import db raises), "none" (db is None),
\* "error" (list_collection_names raises) or "ok"; url: DATABASE_URL is set.
test_database(db, msg, url) ==
    /\ req' = [op |-> "test_database"]
    /\ resp' =
        [status |-> 200,
         body |-> [backend |-> "Running",
                   database |->
                       CASE db = "import_error" -> <<"Error", Truncate(msg)>>
                         [] db = "none" -> <<"Not Available", <<>>>>
                         [] db = "error" -> <<"Connected but Error", Truncate(msg)>>
                         [] OTHER -> <<"Connected & Working", <<>>>>,
                   database_url |->
                       IF db \in {"error", "ok"}
                       THEN (IF url THEN "Set" ELSE "Not Set") ELSE "None",
                   connection_status |->
                       IF db \in {"error", "ok"} THEN "Connected" ELSE "Not Connected",
                   collections |->
                       IF db = "ok" THEN Slice(list_collection_names, 10) ELSE <<>>]]
    /\ store_calls' = IF db = "ok" THEN <<Succeeds>>
                      ELSE IF db = "error" THEN <<Fails(msg)>> ELSE <<>>
    /\ UNCHANGED <<SNEAKERS, SNEAKERS_BY_ID, store, next_oid, issued>>

\* ------------------------------- POST /api/designs, POST /api/alerts

\* Fields of DesignPayload without a default
DesignRequired == {"sneaker_id", "name"}

\* AlertPayload with sneaker_id given a default.
AlertRequired_type_only == {"type"}

\* Fields of AlertPayload without a default
AlertRequired == {"sneaker_id", "type"}

\* The request body passes the payload model's validation.
Valid(body, required) == required \subseteq DOMAIN body

\* payload.model_dump() of a DesignPayload
DesignDump(body) ==
    [user_id |-> Get(body, "user_id", None),
     sneaker_id |-> Get(body, "sneaker_id", None),
     name |-> Get(body, "name", None),
     layers |-> Get(body, "layers", EmptyDict),
     preview_url |-> Get(body, "preview_url", None),
     is_public |-> Get(body, "is_public", FALSE)]

\* payload.model_dump() of an AlertPayload
AlertDump(body) ==
    [user_id |-> Get(body, "user_id", None),
     sneaker_id |-> Get(body, "sneaker_id", None),
     type |-> Get(body, "type", None),
     threshold_price |-> Get(body, "threshold_price", None),
     email |-> Get(body, "email", None)]

\* RequestValidationError: the handler is not called.
Malformed == [status |-> 422, body |-> [detail |-> "validation error"]]

\* The try / except of create_design and create_alert; outs are the store's
\* answers to the request's successive calls.  The result is the response
\* with the store it leaves and the calls made.
\* First the same handler with a second attempt after a failure.
create_endpoint_retry(coll, data, outs) ==
    LET r1 == create_document(coll, data, outs[1])
        r2 == create_document(coll, data, outs[2])
    IN  IF r1.ok
        THEN [status |-> 200, body |-> [id |-> r1.id, ok |-> TRUE],
              store |-> r1.store, next_oid |-> r1.next_oid, calls |-> <<outs[1]>>]
        ELSE IF r2.ok
        THEN [status |-> 200, body |-> [id |-> r2.id, ok |-> TRUE],
              store |-> r2.store, next_oid |-> r2.next_oid, calls |-> <<outs[1], outs[2]>>]
        ELSE [status |-> 500, body |-> [detail |-> str_exc(r2.exc)],
              store |-> r2.store, next_oid |-> r2.next_oid, calls |-> <<outs[1], outs[2]>>]

create_endpoint(coll, data, outs) ==
    LET r == create_document(coll, data, outs[1])
    IN  IF r.ok
        THEN [status |-> 200, body |-> [id |-> r.id, ok |-> TRUE],
              store |-> r.store, next_oid |-> r.next_oid, calls |-> <<outs[1]>>]
        ELSE [status |-> 500, body |-> [detail |-> str_exc(r.exc)],
              store |-> r.store, next_oid |-> r.next_oid, calls |-> <<outs[1]>>]

create_design(body, outs) ==
    /\ req' = [op |-> "create_design", body |-> body]
    /\ IF Valid(body, DesignRequired)
       THEN LET r == create_endpoint("design", DesignDump(body), outs)
            IN  /\ resp' = [status |-> r.status, body |-> r.body]
                /\ store' = r.store
                /\ next_oid' = r.next_oid
                /\ store_calls' = r.calls
                /\ issued' = IF r.status = 200
                             THEN issued \cup {[id |-> r.body.id,
                                                user_id |-> Get(body, "user_id", None),
                                                sneaker_id |-> body.sneaker_id,
                                                name |-> body.name]}
                             ELSE issued
       ELSE /\ resp' = Malformed
            /\ store_calls' = <<>>
            /\ UNCHANGED <<store, next_oid, issued>>
    /\ UNCHANGED <<SNEAKERS, SNEAKERS_BY_ID>>

create_alert(body, outs) ==
    /\ req' = [op |-> "create_alert", body |-> body]
    /\ IF Valid(body, AlertRequired)
       THEN LET r == create_endpoint("alert", AlertDump(body), outs)
            IN  /\ resp' = [status |-> r.status, body |-> r.body]
                /\ store' = r.store
                /\ next_oid' = r.next_oid
                /\ store_calls' = r.calls
       ELSE /\ resp' = Malformed
            /\ store_calls' = <<>>
            /\ UNCHANGED <<store, next_oid>>
    /\ UNCHANGED <<SNEAKERS, SNEAKERS_BY_ID, issued>>

\* ------------------------------------------------- GET /api/designs

\* q = {}: no filter, whatever user_id is.
design_query_all(user_id) == EmptyDict

\* q = {"user_id": user_id} if user_id else {}
design_query(user_id) == IF Truthy(user_id) THEN [user_id |-> user_id] ELSE EmptyDict

\* if "_id" in d: d["id"] = str(d.pop("_id"))
expose_id(d) ==
    IF "_id" \in DOMAIN d
    THEN [k \in (DOMAIN d \ {"_id"}) \cup {"id"} |->
             IF k = "id" THEN str_oid(d["_id"]) ELSE d[k]]
    ELSE d

list_designs(user_id, outs) ==
    LET r == get_documents("design", design_query(user_id), outs[1])
    IN  /\ req' = [op |-> "list_designs", user_id |-> user_id]
        /\ resp' = IF r.ok
                   THEN [status |-> 200,
                         body |-> [items |-> [i \in 1..Len(r.docs) |-> expose_id(r.docs[i])]]]
                   ELSE [status |-> 500, body |-> [detail |-> str_exc(r.exc)]]
        /\ store_calls' = <<outs[1]>>
        /\ UNCHANGED <<SNEAKERS, SNEAKERS_BY_ID, store, next_oid, issued>>

\* --------------------------------------------- persistence input sets

\* "err", and a message longer than the 80 characters GET /test keeps
StoreMessages == {<<101, 114, 114>>, [i \in 1..(TruncateAt + 3) |-> 120]}

Outcomes == {Succeeds} \cup {Fails(m) : m \in StoreMessages}

\* A dict with the key k when present, or without it.
OptIf(present, k, v) == IF present THEN (k :> v) ELSE EmptyDict

\* user_id: absent, '', "u1", "u2"; sneaker_id and name: absent or given
DesignBodies ==
    {OptIf(hu, "user_id", u) @@ OptIf(hs, "sneaker_id", <<97>>) @@ OptIf(hn, "name", n) :
        hu \in BOOLEAN, u \in {Some(<<>>), Some(<<117, 49>>), Some(<<117, 50>>)},
        hs \in BOOLEAN,
        hn \in BOOLEAN, n \in {<<110, 49>>, <<110, 50>>}}

\* threshold_price: absent, below zero, above zero
AlertBodies ==
    {OptIf(hs, "sneaker_id", <<97>>) @@ OptIf(ht, "type", <<100, 114, 111, 112>>)
        @@ OptIf(hp, "threshold_price", p) :
        hs \in BOOLEAN, ht \in BOOLEAN, hp \in BOOLEAN, p \in {Some(-1), Some(5)}}

UserIds == {None, Some(<<>>), Some(<<117, 49>>), Some(<<117, 50>>)}

StoreHasRoom == Len(store.design) + Len(store.alert) < MaxDocs

DesignRequest ==
    /\ Idle
    /\ StoreHasRoom
    /\ \E body \in DesignBodies, outs \in [1..2 -> Outcomes] : create_design(body, outs)

AlertRequest ==
    /\ Idle
    /\ StoreHasRoom
    /\ \E body \in AlertBodies, outs \in [1..2 -> Outcomes] : create_alert(body, outs)

DesignsRequest ==
    /\ Idle
    /\ \E user_id \in UserIds, outs \in [1..2 -> Outcomes] : list_designs(user_id, outs)

InitStore == Loaded(<<>>)

NextStore == DesignRequest \/ AlertRequest \/ DesignsRequest \/ Reply

SpecStore == InitStore /\ [][NextStore]_vars

\* ------------------------------------- every endpoint, interleaved
\* The whole API over the listing catalogs; each endpoint draws its inputs
\* from a few values of the sets above.

RootRequest == Idle /\ read_root

TestRequest ==
    /\ Idle
    /\ \E db \in {"import_error", "none", "error", "ok"}, msg \in StoreMessages,
          url \in BOOLEAN :
           test_database(db, msg, url)

SneakersRequest ==
    /\ Idle
    /\ \E q \in {None, Some(<<100, 75>>)}, sort \in SortKeys, limit \in {2, DefaultLimit} :
           list_sneakers(q, None, None, None, None, None, None, sort, limit)

SneakerRequest ==
    /\ Idle
    /\ \E sneaker_id \in {<<97>>, <<98>>, <<122>>} : get_sneaker(sneaker_id)

StockxRequest ==
    /\ Idle
    /\ \E sneaker_id \in {<<97>>, <<99>>, <<122>>}, u \in {-500, 500}, r \in {-5, 5},
          now \in Clock :
           live_stockx(sneaker_id, u, -u, u, 100, r, now)

PostDesignRequest ==
    /\ Idle
    /\ StoreHasRoom
    /\ \E body \in {b \in DesignBodies :
                       /\ "user_id" \notin DOMAIN b
                       /\ "sneaker_id" \in DOMAIN b
                       /\ \A k \in DOMAIN b : b[k] # <<110, 50>>},
          outs \in [1..2 -> Outcomes] :
           create_design(body, outs)

PostAlertRequest ==
    /\ Idle
    /\ StoreHasRoom
    /\ \E body \in {b \in AlertBodies :
                       /\ "type" \in DOMAIN b
                       /\ "threshold_price" \notin DOMAIN b},
          outs \in [1..2 -> Outcomes] :
           create_alert(body, outs)

GetDesignsRequest ==
    /\ Idle
    /\ \E user_id \in {None, Some(<<117, 49>>)}, outs \in [1..2 -> Outcomes] :
           list_designs(user_id, outs)

Init == \E catalog \in Catalogs(ListPool, MaxCatalog) : Loaded(catalog)

Next ==
    \/ RootRequest
    \/ TestRequest
    \/ SneakersRequest
    \/ SneakerRequest
    \/ TrendingRequest
    \/ StockxRequest
    \/ PostDesignRequest
    \/ PostAlertRequest
    \/ GetDesignsRequest
    \/ Reply

Spec == Init /\ [][Next]_vars

\* ----------------------------------------------------- listing claims

\* The record s satisfies every active filter of the listing request r:
\* q is a substring of name, model or brand; brand is equal; model is a
\* substring (all case-insensitively); the effective price lies within the
\* inclusive bounds; the release date is present and within the inclusive
\* bounds.  A text filter that is None or '' is not active.
Satisfies(s, r) ==
    /\ Truthy(r.q) =>
          \E f \in {s.name, s.model, s.brand} : Contains(lower(r.q[1]), lower(f))
    /\ Truthy(r.brand) => lower(s.brand) = lower(r.brand[1])
    /\ Truthy(r.model) => Contains(lower(r.model[1]), lower(s.model))
    /\ r.minPrice # None => EffectivePrice(s) >= r.minPrice[1]
    /\ r.maxPrice # None => EffectivePrice(s) <= r.maxPrice[1]
    /\ Truthy(r.releaseFrom) =>
          HasRelease(s) /\ ~StrLt(s.releaseDate, r.releaseFrom[1])
    /\ Truthy(r.releaseTo) =>
          HasRelease(s) /\ ~StrLt(r.releaseTo[1], s.releaseDate)

Matching == {i \in 1..Len(SNEAKERS) : Satisfies(SNEAKERS[i], req)}

\* C1: every item list_sneakers returns is a catalog record satisfying every
\* active filter, and count is the number of catalog records satisfying
\* them all, whatever the limit.
C1_FilteredSubsetAndCount ==
    req.op = "list_sneakers" =>
        /\ resp.body.count = Cardinality(Matching)
        /\ \A k \in 1..Len(resp.body.items) :
               \E i \in Matching : SNEAKERS[i] = resp.body.items[k]

\* Two filters are active, some records match and some do not, and the
\* limit cuts the items short of count.
C1_Witness ==
    /\ req.op = "list_sneakers"
    /\ Truthy(req.q) /\ req.minPrice # None
    /\ resp.body.count >= 1
    /\ resp.body.count < Len(SNEAKERS)
    /\ Len(resp.body.items) < resp.body.count

\* C2: with limit <= 0 and at least one matching record, items is empty while
\* count is not zero.
C2_NonPositiveLimitEmpty ==
    (req.op = "list_sneakers" /\ req.limit <= 0 /\ Cardinality(Matching) > 0) =>
        /\ resp.body.items = <<>>
        /\ resp.body.count > 0

\* Position of a returned record in the catalog (ids are unique).
Pos(s) == CHOOSE i \in 1..Len(SNEAKERS) : SNEAKERS[i].id = s.id

\* a may stand before b in a listing sorted by the key `sort`: a's key comes
\* strictly first, or the keys are equal and a precedes b in the catalog.
MayPrecede(a, b, sort) ==
    CASE sort = Some("trending") ->
            \/ TrendingKey(a) > TrendingKey(b)
            \/ TrendingKey(a) = TrendingKey(b) /\ Pos(a) < Pos(b)
      [] sort = Some("price_asc") ->
            \/ EffectivePrice(a) < EffectivePrice(b)
            \/ EffectivePrice(a) = EffectivePrice(b) /\ Pos(a) < Pos(b)
      [] sort = Some("price_desc") ->
            \/ EffectivePrice(a) > EffectivePrice(b)
            \/ EffectivePrice(a) = EffectivePrice(b) /\ Pos(a) < Pos(b)
      [] sort = Some("release_asc") ->
            \/ StrLt(ReleaseKey(a), ReleaseKey(b))
            \/ ReleaseKey(a) = ReleaseKey(b) /\ Pos(a) < Pos(b)
      [] sort = Some("release_desc") ->
            \/ StrLt(ReleaseKey(b), ReleaseKey(a))
            \/ ReleaseKey(a) = ReleaseKey(b) /\ Pos(a) < Pos(b)
      [] OTHER -> Pos(a) < Pos(b)

\* C3: the returned items are ordered by the sort key's comparator, records
\* with equal keys keep their catalog order in ascending and descending
\* sorts, and an absent or unrecognized key leaves catalog order.
C3_SortedAndStable ==
    req.op = "list_sneakers" =>
        \A i, j \in 1..Len(resp.body.items) :
            i < j => MayPrecede(resp.body.items[i], resp.body.items[j], req.sort)

\* A descending sort returned two records with equal prices, and the
\* listing is not in catalog order.
C3_Witness ==
    /\ req.op = "list_sneakers"
    /\ req.sort = Some("price_desc")
    /\ Len(resp.body.items) >= 2
    /\ \E i \in 1..(Len(resp.body.items) - 1) :
           EffectivePrice(resp.body.items[i]) = EffectivePrice(resp.body.items[i + 1])
    /\ \E i \in 1..(Len(resp.body.items) - 1) :
           Pos(resp.body.items[i]) > Pos(resp.body.items[i + 1])

\* ---------------------------------------------------- trending claims

Returned == {resp.body.items[k].id : k \in 1..Len(resp.body.items)}

\* C4 as stated: trending() returns exactly 8 items for every catalog.
C4_ExactlyEight ==
    req.op = "trending" => Len(resp.body.items) = 8

\* C4 as amended: trending() returns min(8, catalog size) items (exactly 8
\* when the catalog holds at least 8 records); they are catalog records in
\* non-increasing trendingScore order (missing = 0) with ties in catalog
\* order, no record left out ranks before a returned one, and terms is the
\* fixed 8-element list.
C4_TopEight ==
    req.op = "trending" =>
        LET items == resp.body.items
        IN  /\ Len(items) = Min(8, Len(SNEAKERS))
            /\ \A k \in 1..Len(items) : \E i \in 1..Len(SNEAKERS) : SNEAKERS[i] = items[k]
            /\ \A i, j \in 1..Len(items) :
                   i < j => /\ TrendingKey(items[i]) >= TrendingKey(items[j])
                            /\ MayPrecede(items[i], items[j], Some("trending"))
            /\ \A k \in 1..Len(items) : \A i \in 1..Len(SNEAKERS) :
                   SNEAKERS[i].id \notin Returned =>
                       MayPrecede(items[k], SNEAKERS[i], Some("trending"))
            /\ resp.body.terms = TrendingTerms
            /\ Len(resp.body.terms) = 8

\* The catalog holds more than 8 records, the record left out ties with the
\* last one returned, and the listing is not the catalog's first 8 records.
C4_Witness ==
    /\ req.op = "trending"
    /\ Len(SNEAKERS) > 8
    /\ Len(resp.body.items) = 8
    /\ resp.body.items # SubSeq(SNEAKERS, 1, 8)
    /\ \E i \in 1..Len(SNEAKERS) :
           /\ SNEAKERS[i].id \notin Returned
           /\ TrendingKey(SNEAKERS[i]) = TrendingKey(resp.body.items[8])

\* ------------------------------------------------ live simulator claims

\* The seed of lowestAsk: stockx.lowestAsk, else retailPrice, else 0.
SeedAsk(s) ==
    IF "stockx" \in DOMAIN s /\ "lowestAsk" \in DOMAIN s.stockx THEN s.stockx.lowestAsk
    ELSE IF "retailPrice" \in DOMAIN s THEN s.retailPrice
    ELSE 0

Abs(x) == IF x < 0 THEN -x ELSE x

LiveOf(P(_, _)) ==
    req.op = "live_stockx" =>
        IF \E i \in 1..Len(SNEAKERS) : SNEAKERS[i].id = req.sneaker_id
        THEN /\ resp.status = 200
             /\ P(resp.body, SeedAsk(SNEAKERS[Pos([id |-> req.sneaker_id])]))
        ELSE resp.status = 404

\* C9 as stated: the rounded lowestAsk is within 5% of the seed, volatility is
\* at least 0.01 and salesLast72h at least 0; an unknown id is not found.
C9_WithinFivePercent ==
    LiveOf(LAMBDA b, seed : /\ 100 * Abs(b.lowestAsk - seed) <= 5 * seed
                            /\ b.volatility >= 100
                            /\ b.salesLast72h >= 0)

\* C9 as amended: lowestAsk is an integer within 5% of the seed plus the
\* rounding error of at most 0.5 (|lowestAsk - seed| <= 0.05 * seed + 0.5),
\* volatility is at least 0.01 and salesLast72h at least 0; an unknown id is
\* not found.
C9_WithinFivePercentRounded ==
    LiveOf(LAMBDA b, seed : /\ 100 * Abs(b.lowestAsk - seed) <= 5 * seed + 50
                            /\ b.volatility >= 100
                            /\ b.salesLast72h >= 0)

\* A snapshot whose lowestAsk moved away from a non-zero seed, with the
\* volatility and sales floors both applied.
C9_Witness ==
    /\ req.op = "live_stockx"
    /\ resp.status = 200
    /\ SeedAsk(SNEAKERS[1]) > 0
    /\ resp.body.lowestAsk > SeedAsk(SNEAKERS[1])
    /\ resp.body.volatility = 100
    /\ resp.body.salesLast72h = 0

\* --------------------------------------------------- persistence claims

ItemsOf(r) == {r.body.items[k] : k \in 1..Len(r.body.items)}

\* Every design whose creation succeeded is found by a list_designs call
\* for its user_id, under the identifier create_design returned and with the
\* submitted name and sneaker_id; a successful create_design returned a
\* non-empty id and ok = true.
CreatedThenListed ==
    /\ (req.op = "create_design" /\ resp.status = 200) =>
           resp.body.ok = TRUE /\ resp.body.id # <<>>
    /\ (req.op = "list_designs" /\ resp.status = 200) =>
           \A c \in issued :
               c.user_id = req.user_id =>
                   \E d \in ItemsOf(resp) :
                       d.id = c.id /\ d.name = c.name /\ d.sneaker_id = c.sneaker_id

\* C6 as stated: created designs are listed for their user_id, and
\* list_designs with a user_id returns only records with exactly that
\* user_id.
C6_ListedAndOnlyMatching ==
    /\ CreatedThenListed
    /\ (req.op = "list_designs" /\ resp.status = 200 /\ req.user_id # None) =>
           \A d \in ItemsOf(resp) : d.user_id = req.user_id

\* C6 as amended: created designs are listed for their user_id, and
\* list_designs with a non-empty user_id returns only records with exactly
\* that user_id (an empty user_id filters nothing).
C6_ListedAndOnlyMatchingNonEmpty ==
    /\ CreatedThenListed
    /\ (req.op = "list_designs" /\ resp.status = 200 /\ Truthy(req.user_id)) =>
           \A d \in ItemsOf(resp) : d.user_id = req.user_id

\* Two designs of different users are stored and a listing for one user
\* returned that user's design and not the other's.
C6_Witness ==
    /\ req.op = "list_designs"
    /\ resp.status = 200
    /\ Truthy(req.user_id)
    /\ Len(store.design) = 2
    /\ Len(resp.body.items) = 1
    /\ \E c \in issued : c.user_id = req.user_id /\ resp.body.items[1].id = c.id

\* The body of a create request lacks a required field: sneaker_id for
\* both, type for alerts, name for designs.
LacksRequired(r) ==
    \/ r.op = "create_design" /\ ("sneaker_id" \notin DOMAIN r.body \/ "name" \notin DOMAIN r.body)
    \/ r.op = "create_alert" /\ ("sneaker_id" \notin DOMAIN r.body \/ "type" \notin DOMAIN r.body)

\* C7: a create_alert or create_design request whose body lacks a required
\* field gets the malformed-request response, the store is not called and
\* holds the same records after the request as before.
C7_MalformedNeverStored ==
    [][LacksRequired(req') =>
          /\ resp'.status = 422
          /\ store_calls' = <<>>
          /\ store' = store
          /\ next_oid' = next_oid]_vars

\* An alert without sneaker_id was rejected while the store held a record.
C7_Witness ==
    /\ req.op = "create_alert"
    /\ "sneaker_id" \notin DOMAIN req.body
    /\ "type" \in DOMAIN req.body
    /\ resp.status = 422
    /\ Len(store.design) + Len(store.alert) > 0

\* C8: every stored alert has threshold_price absent (None) or non-negative.
C8_ThresholdNonNegative ==
    \A k \in 1..Len(store.alert) :
        store.alert[k].threshold_price = None \/ store.alert[k].threshold_price[1] >= 0

\* The store failed during the request just handled.
StoreFailed ==
    /\ req.op \in {"create_design", "create_alert", "list_designs"}
    /\ \E k \in 1..Len(store_calls) : ~store_calls[k].ok

\* C10 as stated: when the store fails, the response is a 500 carrying the
\* store's message truncated, the store was called at most once and no id
\* is returned.
C10_StoreErrorTruncated ==
    StoreFailed =>
        /\ resp.status = 500
        /\ resp.body.detail = Truncate(store_calls[1].exc.args[1])
        /\ Len(store_calls) <= 1
        /\ "id" \notin DOMAIN resp.body

\* C10 as amended: when the store fails, the response is a 500 carrying the
\* store's message in full, the store was called at most once and no id is
\* returned.
C10_StoreErrorInFull ==
    StoreFailed =>
        /\ resp.status = 500
        /\ resp.body.detail = store_calls[1].exc.args[1]
        /\ Len(store_calls) <= 1
        /\ "id" \notin DOMAIN resp.body

\* The store failed with a message of more than 80 characters during a
\* create_design.
C10_Witness ==
    /\ StoreFailed
    /\ req.op = "create_design"
    /\ Len(store_calls[1].exc.args[1]) > 80
    /\ resp.status = 500

\* ------------------------------------------------------- catalog claim

\* C5: no request handler changes the catalog sequence, its records or the
\* id-to-record index: after any sequence of requests they are what was
\* built at load.
C5_CatalogImmutable ==
    [][SNEAKERS' = SNEAKERS /\ SNEAKERS_BY_ID' = SNEAKERS_BY_ID]_vars

\* A listing without any filter was sorted into an order other than the
\* catalog's, after a document had been stored.
C5_Witness ==
    /\ req.op = "list_sneakers"
    /\ req.q = None
    /\ req.sort = Some("price_desc")
    /\ Len(resp.body.items) >= 2
    /\ resp.body.items # SubSeq(SNEAKERS, 1, Len(resp.body.items))
    /\ SNEAKERS_BY_ID = BuildIndex(SNEAKERS)
    /\ Len(store.design) + Len(store.alert) > 0

====
